---- MODULE Spec2Model ----
(***************************************************************************)
(* Model of src/src/index.ts (the retrying program, lines 46-208):         *)
(*   withRetry(cfg)(() => withSdk(manifest, run))                          *)
(* loadSdk opens a session and returns [sdk, connectionLost]; withSdk      *)
(* races the Work Function against connectionLost; withRetry re-invokes    *)
(* the whole cycle on every failure.                                       *)
(*                                                                         *)
(* One step of the model is one run-to-completion job of the JavaScript    *)
(* event loop (a callback of the Connection Provider, a promise            *)
(* continuation, a timer).                                                 *)
(***************************************************************************)
EXTENDS Integers, Sequences, FiniteSets, TLC

(***************************************************************************)
(* Bounds of the model.                                                    *)
(***************************************************************************)
\* largest finite cfg.maxRetries explored
MaxN == 1
\* cap on the invocations of the operation (reached only by unlimited retry)
MaxInvocations == MaxN + 1
\* cap on the onConnectionLost callbacks the provider makes, all sessions together
MaxLostCalls == 2
\* number of calls made of one function returned by withRetry(cfg)
NumCalls == 2

(***************************************************************************)
(* Values.                                                                 *)
(***************************************************************************)
\* the JavaScript value `undefined` of an absent optional field
Undef == -1

\* retryTimeoutMs values explored (500 is the one main uses)
RetryTimeouts == {Undef, 500}

\* cfg?: { retryTimeoutMs?: number; maxRetries?: number }
\* given = FALSE is the call withRetry() without a cfg
Configs ==
  { [given |-> TRUE, maxRetries |-> m, retryTimeoutMs |-> t] :
      m \in {Undef} \cup (0 .. MaxN), t \in RetryTimeouts }
  \cup { [given |-> FALSE, maxRetries |-> Undef, retryTimeoutMs |-> Undef] }

\* cfg?.maxRetries
CfgMaxRetries(c) == IF c.given THEN c.maxRetries ELSE Undef

\* cfg?.retryTimeoutMs
CfgRetryTimeoutMs(c) == IF c.given THEN c.retryTimeoutMs ELSE Undef

\* A JavaScript value that travels through the promises.  kind:
\*   "val"      a plain result of the Work Function
\*   "errval"   an Error instance the Work Function returns as its result
\*   "workErr"  an Error the Work Function throws
\*   "connErr"  the error SDK.of rejects with
\*   "lostErr"  the Error built in the onConnectionLost callback
\* a is the attempt that created it, n the callback number for "lostErr".
Value(k, a, n) == [kind |-> k, a |-> a, n |-> n]

NoValue == Value("none", 0, 0)

\* result instanceof Error
IsError(x) == x.kind \in {"errval", "workErr", "connErr", "lostErr"}

(***************************************************************************)
(* Promises.                                                               *)
(***************************************************************************)
Pending == [st |-> "pending", v |-> NoValue]

Fulfilled(x) == [st |-> "fulfilled", v |-> x]

Rejected(x) == [st |-> "rejected", v |-> x]

Settled(p) == p.st # "pending"

\* a mutation of Settle: a later settlement overwrites an earlier one
Settle_Overwrite(p, q) == q

\* The resolve/reject functions of a promise: only the first call settles it.
Settle(p, q) == IF Settled(p) THEN p ELSE q

\* Promise.race([run(sdk), connectionWasLost]) at the moment of the call: the
\* reactions of already settled promises are queued in array order, so a
\* settled work promise wins over a settled loss signal.
PromiseRace(work, lost) ==
  IF Settled(work) THEN work
  ELSE IF Settled(lost) THEN lost
  ELSE Pending

(***************************************************************************)
(* withRetry: the pure parts of lines 124-162.                             *)
(***************************************************************************)
\* a mutation of RetryTimeout: the configured delay is ignored
RetryTimeout_Zero(c) == 0

\* const retryTimeout = cfg?.retryTimeoutMs !== undefined ? cfg.retryTimeoutMs : 0
RetryTimeout(c) ==
  IF CfgRetryTimeoutMs(c) # Undef THEN CfgRetryTimeoutMs(c) ELSE 0

\* a mutation of ShouldGiveUp: >= in place of >
ShouldGiveUp_OffByOne(n, c) ==
  CfgMaxRetries(c) # Undef /\ n >= CfgMaxRetries(c)

\* a mutation of ShouldGiveUp: an absent maxRetries counts as 0
ShouldGiveUp_NoUnlimited(n, c) ==
  n > (IF CfgMaxRetries(c) # Undef THEN CfgMaxRetries(c) ELSE 0)

\* a mutation of ShouldGiveUp: numRetries is compared with the wrong field
ShouldGiveUp_WrongField(n, c) ==
  CfgRetryTimeoutMs(c) # Undef /\ n > CfgRetryTimeoutMs(c)

\* cfg?.maxRetries !== undefined && numRetries > cfg.maxRetries, evaluated
\* after numRetries++
ShouldGiveUp(n, c) ==
  CfgMaxRetries(c) # Undef /\ n > CfgMaxRetries(c)

\* a mutation of GiveUpError: the first error seen is the one thrown
GiveUpError_First(error, log) == log[1]

\* throw error: the error caught in this iteration of the loop; log is what
\* console.error has reported so far, this error included
GiveUpError(error, log) == error

(***************************************************************************)
(* State.                                                                  *)
(***************************************************************************)
VARIABLES
  cfg,          \* the configuration withRetry was called with
  retryPc,      \* where the retry loop is: "start", "awaiting", "sleeping", "done"
  numRetries,   \* let numRetries
  retryResult,  \* the promise the retry loop returns
  errLog,       \* the errors reported through console.error, in order
  sleeps,       \* the durations passed to sleep, in order
  att,          \* one record per invocation of the operation () => withSdk(manifest, run)
  mainLog,      \* what main has written with console.log / console.error
  calls         \* further calls of the function withRetry(cfg) returned, each
                \* with an operation of its own: one record per call

vars ==
  <<cfg, retryPc, numRetries, retryResult, errLog, sleeps, att, mainLog, calls>>

retryVars ==
  <<cfg, retryPc, numRetries, retryResult, errLog, sleeps, mainLog, calls>>

Attempts == 1 .. Len(att)

\* The state of one withSdk call right after it has called loadSdk, which has
\* built the connectionLost promise and called SDK.of:
\*   pc             "opening" (await SDK.of), "loaded" (loadSdk has returned,
\*                  withSdk not yet resumed), "racing" (await Promise.race),
\*                  "done"
\*   sdkOf          calls of SDK.of
\*   handle         loadSdk has returned [sdk, connectionLost]
\*   connectionLost the loss signal
\*   lostCalls      onConnectionLost callbacks made by the provider
\*   lostAtReturn   connectionLost was settled when the pair was returned
\*   runCalls       invocations of the Work Function
\*   work           the promise run(sdk) returned
\*   race           the promise Promise.race returned
\*   first          which of work / connectionLost settled first
\*   disposed       calls of sdk.dispose()
\*   outcome        the promise withSdk returned
\*   lastUse        the state of the session at the latest use the Work
\*                  Function made of the handle: "none", "live", "lost"
NewAttempt ==
  [ pc |-> "opening", sdkOf |-> 1, handle |-> FALSE,
    connectionLost |-> Pending, lostCalls |-> 0, lostAtReturn |-> FALSE,
    runCalls |-> 0, work |-> Pending, race |-> Pending, first |-> "none",
    disposed |-> 0, outcome |-> Pending, lastUse |-> "none" ]

RECURSIVE SumLostCalls(_)
SumLostCalls(n) == IF n = 0 THEN 0 ELSE att[n].lostCalls + SumLostCalls(n - 1)

\* What the Work Function invocation of attempt k can settle with: a plain
\* result, a result that is an Error instance, or an error it throws.
WorkOutcomes(k) ==
  { Fulfilled(Value("val", k, 0)),
    Fulfilled(Value("errval", k, 0)),
    Rejected(Value("workErr", k, 0)) }

\* A call of the returned function that has not been made yet.
\*   pc          "start", "awaiting", "sleeping", "done"
\*   numRetries  let numRetries of this call
\*   invoked     invocations of this call's operation
\*   result      the promise this call returned
IdleCall == [pc |-> "start", numRetries |-> 0, invoked |-> 0, result |-> Pending]

Init ==
  /\ mainLog = <<>>
  /\ calls = [i \in 1 .. NumCalls |-> IdleCall]
  /\ cfg \in Configs
  /\ retryPc = "start"
  /\ numRetries = 0
  /\ retryResult = Pending
  /\ errLog = <<>>
  /\ sleeps = <<>>
  /\ att = <<>>

(***************************************************************************)
(* loadSdk and withSdk, lines 88-117.                                      *)
(***************************************************************************)
\* a mutation of OpenFailed: withSdk connects a second time by itself
OpenFailed_Reopen(a, k) ==
  [a EXCEPT !.sdkOf = @ + 1]

\* SDK.of rejects: the await in loadSdk throws, loadSdk rejects, the await in
\* withSdk throws and withSdk rejects with the same error.
OpenFailed(a, k) ==
  [a EXCEPT !.pc = "done", !.outcome = Rejected(Value("connErr", k, 0))]

OpenFail(k) ==
  /\ att[k].pc = "opening"
  /\ att' = [att EXCEPT ![k] = OpenFailed(@, k)]
  /\ UNCHANGED retryVars

\* SDK.of resolves and loadSdk returns [sdk, connectionLost].
OpenSucceed(k) ==
  /\ att[k].pc = "opening"
  /\ att' = [att EXCEPT ![k] =
       [@ EXCEPT !.pc = "loaded", !.handle = TRUE,
                 !.lostAtReturn = Settled(att[k].connectionLost)]]
  /\ UNCHANGED retryVars

\* The Work Function issues an operation against the handle (Pond.from(sdk),
\* pond.info()), whatever the state of the session.
UseHandle(a) ==
  [a EXCEPT !.lastUse = IF Settled(a.connectionLost) THEN "lost" ELSE "live"]

\* The first of work / connectionLost to settle.
First(a, who) == IF a.first = "none" THEN who ELSE a.first

\* withSdk resumes after loadSdk: it calls run(sdk), which runs until its first
\* await and returns a promise w (already settled when run never awaits), and
\* passes [w, connectionWasLost] to Promise.race.
StartRace(k, w) ==
  /\ att[k].pc = "loaded"
  /\ att' = [att EXCEPT ![k] =
       [UseHandle(@) EXCEPT
                 !.pc = "racing", !.runCalls = @ + 1, !.work = w,
                 !.first = IF Settled(w) THEN First(att[k], "work") ELSE @,
                 !.race = PromiseRace(w, att[k].connectionLost)]]
  /\ UNCHANGED retryVars

\* The Work Function, still running, resumes after an await (the timer in the
\* loop of run) and uses the handle again; nothing stops it when the
\* connection is lost or when withSdk has ended.
WorkUsesHandle(k) ==
  /\ att[k].runCalls = 1
  /\ ~Settled(att[k].work)
  /\ att' = [att EXCEPT ![k] = UseHandle(@)]
  /\ UNCHANGED retryVars

\* The Work Function settles after having awaited something.
WorkSettle(k, w) ==
  /\ att[k].runCalls = 1
  /\ ~Settled(att[k].work)
  /\ att' = [att EXCEPT ![k] =
       [@ EXCEPT !.work = w, !.first = First(att[k], "work"),
                 !.race = Settle(att[k].race, w)]]
  /\ UNCHANGED retryVars

\* The provider invokes the onConnectionLost callback given to SDK.of, which
\* builds a new Error and passes it to the resolve function of connectionLost.
\* Once Promise.race has subscribed, the race settles with it too.
ConnectionLost(k) ==
  /\ att[k].pc \in {"opening", "loaded", "racing"} \/ att[k].handle
  /\ SumLostCalls(Len(att)) < MaxLostCalls
  /\ LET n == att[k].lostCalls + 1
         lost == Settle(att[k].connectionLost, Fulfilled(Value("lostErr", k, n)))
     IN att' = [att EXCEPT ![k] =
          [@ EXCEPT !.lostCalls = n, !.connectionLost = lost,
                    !.first = First(att[k], "lost"),
                    !.race = IF att[k].runCalls = 1
                               THEN Settle(att[k].race, lost) ELSE @]]
  /\ UNCHANGED retryVars

\* withSdk resumes after the race, lines 111-116: a rejected race throws at
\* the await; a result that is an Error is thrown; otherwise the handle is
\* disposed and the result returned.
AfterRace(a) ==
  IF a.race.st = "rejected" THEN
    [a EXCEPT !.pc = "done", !.outcome = Rejected(a.race.v)]
  ELSE IF IsError(a.race.v) THEN
    [a EXCEPT !.pc = "done", !.outcome = Rejected(a.race.v)]
  ELSE
    [a EXCEPT !.pc = "done", !.disposed = @ + 1, !.outcome = Fulfilled(a.race.v)]

WithSdkResume(k) ==
  /\ att[k].pc = "racing"
  /\ Settled(att[k].race)
  /\ att' = [att EXCEPT ![k] = AfterRace(@)]
  /\ UNCHANGED retryVars

(***************************************************************************)
(* withRetry, lines 124-162.                                               *)
(***************************************************************************)
\* run(): the operation is () => withSdk(manifest, run); withSdk runs
\* synchronously into loadSdk up to the await of SDK.of.
InvokeRun ==
  /\ Len(att) < MaxInvocations
  /\ att' = Append(att, NewAttempt)
  /\ retryPc' = "awaiting"

\* main, lines 191-205: result is what withRetry(...)(...) returned, the
\* promise itself since the call is not awaited; the next statement logs it.
\* An async function never throws at the call, so the catch is not entered.
MainAfterCall(result) ==
  << [msg |-> "the program ended successfully with result", shown |-> result] >>

\* The function withRetry(cfg) returned is called, as main does: numRetries = 0,
\* first run() up to its first await; then the caller goes on.
Start ==
  /\ retryPc = "start"
  /\ InvokeRun
  /\ numRetries' = 0
  /\ mainLog' = mainLog \o MainAfterCall(retryResult)
  /\ UNCHANGED <<cfg, retryResult, errLog, sleeps, calls>>

\* a mutation of OnSuccess: the loop goes round again after a success
OnSuccess_RetryAnyway(res) == [pc |-> "sleeping", result |-> Pending]

\* const res = await run(); return res
OnSuccess(res) == [pc |-> "done", result |-> Fulfilled(res)]

\* await run() resumes with the settled promise of the last invocation.
RetryReturn ==
  /\ retryPc = "awaiting"
  /\ att[Len(att)].outcome.st = "fulfilled"
  /\ LET next == OnSuccess(att[Len(att)].outcome.v)
     IN /\ retryPc' = next.pc
        /\ retryResult' = next.result
  /\ UNCHANGED <<cfg, numRetries, errLog, sleeps, att, mainLog, calls>>

\* a mutation of RetryCatch: a failed connection attempt is not retried
RetryCatch_ByKind ==
  /\ retryPc = "awaiting"
  /\ att[Len(att)].outcome.st = "rejected"
  /\ LET error == att[Len(att)].outcome.v
         log == Append(errLog, error)
     IN /\ errLog' = log
        /\ numRetries' = numRetries + 1
        /\ IF ShouldGiveUp(numRetries + 1, cfg) \/ error.kind = "connErr"
             THEN /\ retryPc' = "done"
                  /\ retryResult' = Rejected(GiveUpError(error, log))
                  /\ sleeps' = sleeps
             ELSE /\ retryPc' = "sleeping"
                  /\ retryResult' = retryResult
                  /\ sleeps' = Append(sleeps, RetryTimeout(cfg))
  /\ UNCHANGED <<cfg, att, mainLog, calls>>

\* The catch block: report the error, numRetries++, then give up or sleep.
RetryCatch ==
  /\ retryPc = "awaiting"
  /\ att[Len(att)].outcome.st = "rejected"
  /\ LET error == att[Len(att)].outcome.v
         log == Append(errLog, error)
     IN /\ errLog' = log
        /\ numRetries' = numRetries + 1
        /\ IF ShouldGiveUp(numRetries + 1, cfg)
             THEN /\ retryPc' = "done"
                  /\ retryResult' = Rejected(GiveUpError(error, log))
                  /\ sleeps' = sleeps
             ELSE /\ retryPc' = "sleeping"
                  /\ retryResult' = retryResult
                  /\ sleeps' = Append(sleeps, RetryTimeout(cfg))
  /\ UNCHANGED <<cfg, att, mainLog, calls>>

\* a mutation of SleepDone: the next run() does not wait for the settlement
\* of the previous one (the loop is driven by the timer alone)
SleepDone_NoAwait ==
  /\ retryPc \in {"sleeping", "awaiting"}
  /\ InvokeRun
  /\ UNCHANGED <<cfg, numRetries, retryResult, errLog, sleeps, mainLog, calls>>

\* The timer of sleep(retryTimeout) fires and the loop calls run() again.
SleepDone ==
  /\ retryPc = "sleeping"
  /\ InvokeRun
  /\ UNCHANGED <<cfg, numRetries, retryResult, errLog, sleeps, mainLog, calls>>

Next ==
  \/ Start
  \/ RetryReturn
  \/ RetryCatch
  \/ SleepDone
  \/ \E k \in Attempts : OpenFail(k)
  \/ \E k \in Attempts : OpenSucceed(k)
  \/ \E k \in Attempts : \E w \in WorkOutcomes(k) \cup {Pending} : StartRace(k, w)
  \/ \E k \in Attempts : \E w \in WorkOutcomes(k) : WorkSettle(k, w)
  \/ \E k \in Attempts : WorkUsesHandle(k)
  \/ \E k \in Attempts : ConnectionLost(k)
  \/ \E k \in Attempts : WithSdkResume(k)

Spec == Init /\ [][Next]_vars

\* The same with the scheduling the event loop guarantees: a continuation
\* whose promise has settled and a timer that was started do run; and with
\* the assumption that every connection attempt resolves or fails and that
\* every Work Function invocation settles unless the loss signal ends the
\* race first.
Progress ==
  \/ Start
  \/ RetryReturn
  \/ RetryCatch
  \/ SleepDone
  \/ \E k \in Attempts : OpenFail(k) \/ OpenSucceed(k)
  \/ \E k \in Attempts : \E w \in WorkOutcomes(k) \cup {Pending} :
       StartRace(k, w)
  \/ \E k \in Attempts : \E w \in WorkOutcomes(k) : WorkSettle(k, w)
  \/ \E k \in Attempts : WithSdkResume(k)

Fairness == WF_vars(Progress)

LiveSpec == Spec /\ Fairness

(***************************************************************************)
(* Several calls of the one function withRetry(cfg) returned, lines        *)
(* 124-162, each with an operation of its own that succeeds or fails at    *)
(* each invocation.  The calls may follow each other or overlap.           *)
(***************************************************************************)
otherVars == <<cfg, retryPc, numRetries, retryResult, errLog, sleeps, att, mainLog>>

RECURSIVE MaxRetriesOf(_, _)
MaxRetriesOf(cs, n) ==
  IF n = 0 THEN 0
  ELSE LET m == MaxRetriesOf(cs, n - 1)
       IN IF cs[n].numRetries > m THEN cs[n].numRetries ELSE m

\* a mutation of CounterAfterFailure: one counter, declared next to cfg in
\* the outer function, is shared by all calls
CounterAfterFailure_Shared(cs, i) == MaxRetriesOf(cs, NumCalls) + 1

\* numRetries++ on the counter declared inside the returned function
\* (line 127): each call has its own
CounterAfterFailure(cs, i) == cs[i].numRetries + 1

\* Call i is made: let numRetries = 0, first run().
CallStart(i) ==
  /\ calls[i].pc = "start"
  /\ calls' = [calls EXCEPT ![i] =
       [@ EXCEPT !.pc = "awaiting", !.numRetries = 0, !.invoked = 1]]
  /\ UNCHANGED otherVars

\* The operation of call i returns a value: return res.
CallOpSucceeds(i) ==
  /\ calls[i].pc = "awaiting"
  /\ calls' = [calls EXCEPT ![i] =
       [@ EXCEPT !.pc = "done",
                 !.result = Fulfilled(Value("val", calls[i].invoked, 0))]]
  /\ UNCHANGED otherVars

\* The operation of call i throws: the catch block.
CallOpFails(i) ==
  /\ calls[i].pc = "awaiting"
  /\ LET n == CounterAfterFailure(calls, i)
         error == Value("workErr", calls[i].invoked, 0)
     IN calls' = [calls EXCEPT ![i] =
          IF ShouldGiveUp(n, cfg)
            THEN [@ EXCEPT !.numRetries = n, !.pc = "done",
                           !.result = Rejected(error)]
            ELSE [@ EXCEPT !.numRetries = n, !.pc = "sleeping"]]
  /\ UNCHANGED otherVars

\* The sleep of call i is over: next run().
CallSleepDone(i) ==
  /\ calls[i].pc = "sleeping"
  /\ calls[i].invoked < MaxInvocations
  /\ calls' = [calls EXCEPT ![i] =
       [@ EXCEPT !.pc = "awaiting", !.invoked = @ + 1]]
  /\ UNCHANGED otherVars

NextCalls ==
  \/ \E i \in 1 .. NumCalls : CallStart(i)
  \/ \E i \in 1 .. NumCalls : CallOpSucceeds(i)
  \/ \E i \in 1 .. NumCalls : CallOpFails(i)
  \/ \E i \in 1 .. NumCalls : CallSleepDone(i)

SpecCalls == Init /\ [][NextCalls]_vars

(***************************************************************************)
(* Properties of withRetry.                                                *)
(***************************************************************************)
AllFailed == \A k \in Attempts : att[k].outcome.st = "rejected"

\* C1: with a finite maxRetries = N and any retryTimeoutMs, the operation is
\* never invoked more than N + 1 times; withRetry raises only after N + 1
\* invocations that all failed; and once N + 1 invocations have all failed and
\* the loop has seen the last failure, it has raised instead of going on.
C1_AlwaysFailingInvokedNPlus1 ==
  LET N == CfgMaxRetries(cfg) IN
  N # Undef =>
    /\ Len(att) <= N + 1
    /\ retryResult.st = "rejected" => Len(att) = N + 1 /\ AllFailed
    /\ (Len(att) = N + 1 /\ AllFailed /\ retryPc # "awaiting")
         => retryPc = "done" /\ retryResult.st = "rejected"
    /\ (AllFailed /\ retryPc = "sleeping") => Len(att) <= N

\* C1 witness: maxRetries = MaxN with retryTimeoutMs = 500 has raised after
\* MaxN + 1 failed invocations.
C1_Witness ==
  /\ cfg.given /\ cfg.maxRetries = MaxN /\ cfg.retryTimeoutMs = 500
  /\ retryResult.st = "rejected"
  /\ Len(att) = MaxN + 1
  /\ AllFailed

\* C2: when withRetry has returned, the value is the one of the last
\* invocation k, every invocation before k failed, k <= N + 1 for a finite
\* maxRetries = N, k - 1 waits were made (none for k = 1), and the loop is over
\* (no invocation follows the successful one); and as soon as the loop has
\* seen a successful invocation it has returned its value.
C2_SuccessOnKthReturnsIt ==
  LET k == Len(att) IN
  /\ retryResult.st = "fulfilled" =>
       /\ retryPc = "done"
       /\ att[k].outcome = retryResult
       /\ retryResult.v.a = k
       /\ \A j \in 1 .. k - 1 : att[j].outcome.st = "rejected"
       /\ CfgMaxRetries(cfg) # Undef => k <= CfgMaxRetries(cfg) + 1
       /\ Len(sleeps) = k - 1
       /\ numRetries = k - 1
  /\ \A j \in Attempts :
       (att[j].outcome.st = "fulfilled" /\ (j < k \/ retryPc # "awaiting"))
         => j = k /\ retryResult = att[j].outcome

\* C2 witness: the first invocation failed, the second succeeded and its value
\* has been returned.
C2_Witness ==
  /\ retryResult.st = "fulfilled"
  /\ Len(att) = 2
  /\ att[1].outcome.st = "rejected"
  /\ retryResult.v = Value("val", 2, 0)

\* C3: the error withRetry raises is the error of the last invocation, it is
\* the last error reported, and it is the error of no earlier invocation; the
\* errors of the earlier invocations are in the log, in order, and were not
\* raised.
C3_LastErrorIsRaised ==
  /\ \A j \in 1 .. Len(errLog) : errLog[j] = att[j].outcome.v
  /\ retryResult.st = "rejected" =>
       /\ retryResult.v = att[Len(att)].outcome.v
       /\ retryResult.v = errLog[Len(errLog)]
       /\ Len(errLog) = Len(att)
       /\ \A j \in 1 .. Len(att) - 1 : att[j].outcome.v # retryResult.v

\* C3 witness: withRetry has raised after two failures of different kinds.
C3_Witness ==
  /\ retryResult.st = "rejected"
  /\ Len(att) = 2
  /\ att[1].outcome.v.kind = "connErr"
  /\ retryResult.v = Value("workErr", 2, 0)

\* C4: without a maxRetries (cfg absent, or cfg.maxRetries absent) withRetry
\* never raises: it ends only by returning a value, every failure is followed
\* by a wait, and after the wait the operation can be invoked again (up to the
\* cap of the model).
C4_UnlimitedNeverRaises ==
  CfgMaxRetries(cfg) = Undef =>
    /\ retryResult.st # "rejected"
    /\ retryPc = "done" => retryResult.st = "fulfilled"
    /\ Len(sleeps) = numRetries
    /\ Len(errLog) = numRetries
    /\ (AllFailed /\ retryPc \notin {"start", "awaiting"})
         => retryPc = "sleeping" /\ numRetries = Len(att)
    /\ (retryPc = "sleeping" /\ Len(att) < MaxInvocations) => ENABLED SleepDone

\* C4 witness: withRetry() without a cfg is waiting to retry after more
\* failures than any finite maxRetries of the model allows.
C4_Witness ==
  /\ ~cfg.given
  /\ retryPc = "sleeping"
  /\ numRetries = MaxN + 1
  /\ AllFailed

(***************************************************************************)
(* Properties of loadSdk and withSdk.                                      *)
(***************************************************************************)
\* The withSdk call of attempt k has ended.
Ended(k) == att[k].pc = "done"

\* The open of attempt k failed.
OpenHasFailed(k) == Ended(k) /\ att[k].outcome.v.kind = "connErr"

\* C5: in every withSdk call that has invoked its Work Function and has
\* ended, and whose loss signal fired before the Work Function settled (or
\* whose Work Function never settled), withSdk has failed with the error the
\* loss signal carries; the result of the Work Function is not its outcome.
C5_LossFirstFailsWithLoss ==
  \A k \in Attempts :
    (Ended(k) /\ att[k].runCalls = 1 /\ att[k].first = "lost")
      => att[k].outcome = Rejected(att[k].connectionLost.v)

\* C6: in every withSdk call that has ended and whose Work Function settled
\* before the loss signal fired, the outcome of withSdk is the outcome of the
\* Work Function: the same value returned, or the same error raised.
C6_WorkFirstOutcomeUnchanged ==
  \A k \in Attempts :
    (Ended(k) /\ att[k].first = "work") => att[k].outcome = att[k].work

\* C7: dispose is called exactly when withSdk returns successfully: once
\* when the Work Function won the race with a value, never when withSdk fails,
\* never while the call is still running or the race unsettled.
C7_DisposeExactlyOnSuccess ==
  \A k \in Attempts :
    /\ att[k].disposed \in {0, 1}
    /\ att[k].disposed = 1 <=> att[k].outcome.st = "fulfilled"
    /\ att[k].outcome.st = "rejected" => att[k].disposed = 0
    /\ (~Ended(k) \/ ~Settled(att[k].race)) => att[k].disposed = 0
    /\ (Ended(k) /\ att[k].work.st = "fulfilled" /\ att[k].race = att[k].work)
         => att[k].disposed = 1 /\ att[k].outcome = att[k].work

\* C8: every withSdk call makes exactly one open call; when the open fails
\* no handle and no loss signal have been returned, the Work Function has not
\* been invoked, nothing is disposed, withSdk has failed with the connection
\* error, and withRetry handles that error like any other failure (it is
\* reported and counted as soon as the loop has seen it).
C8_OpenFailurePropagates ==
  \A k \in Attempts :
    /\ att[k].sdkOf = 1
    /\ att[k].pc = "opening" => ~Settled(att[k].outcome) /\ att[k].runCalls = 0
    /\ OpenHasFailed(k) =>
         /\ att[k].outcome = Rejected(Value("connErr", k, 0))
         /\ ~att[k].handle
         /\ att[k].runCalls = 0
         /\ att[k].work = Pending /\ att[k].race = Pending
         /\ att[k].disposed = 0
         /\ (k < Len(att) \/ retryPc # "awaiting") =>
              /\ errLog[k] = att[k].outcome.v
              /\ numRetries >= k

\* C8 witness: the first open failed and withRetry is waiting to retry.
C8_Witness ==
  /\ Len(att) = 1
  /\ OpenHasFailed(1)
  /\ retryPc = "sleeping"
  /\ errLog = << Value("connErr", 1, 0) >>

\* C9: the loss signal of a session is pending until the first
\* onConnectionLost callback, then fulfilled (never rejected) with the Error of
\* that first callback, whatever the number of callbacks; withSdk acts on it
\* at most once: a call that failed with a loss error failed with that first
\* Error and disposed nothing.
C9_LossSignalSettlesOnce ==
  \A k \in Attempts :
    /\ att[k].lostCalls = 0 <=> att[k].connectionLost = Pending
    /\ att[k].lostCalls >= 1 =>
         att[k].connectionLost = Fulfilled(Value("lostErr", k, 1))
    /\ att[k].outcome.v.kind = "lostErr" =>
         /\ att[k].outcome = Rejected(Value("lostErr", k, 1))
         /\ att[k].disposed = 0

\* C9 witness: the provider has made two callbacks for one session and
\* withSdk has failed with the Error of the first.
C9_Witness ==
  \E k \in Attempts :
    /\ att[k].lostCalls = 2
    /\ att[k].outcome = Rejected(Value("lostErr", k, 1))

\* C10: whenever loadSdk has returned the pair [handle, lossSignal] of a
\* session, the loss signal was still unresolved at the moment of the return.
C10_LossNotBeforeHandle ==
  \A k \in Attempts : att[k].handle => ~att[k].lostAtReturn

(***************************************************************************)
(* Properties of the composition withRetry(() => withSdk(manifest, run)).  *)
(***************************************************************************)
\* C11: no Work Function invocation uses its handle after the loss signal
\* of its session has fired.
C11_NoUseAfterLoss ==
  \A k \in Attempts : att[k].lastUse # "lost"

\* C12: the invocations of the operation by one withRetry call are strictly
\* sequential: every invocation but the last has settled (its withSdk call
\* has ended), so at most one invocation is started and unsettled; and the
\* last one is unsettled only while the loop awaits it.
C12_AttemptsSequential ==
  /\ \A j \in 1 .. Len(att) - 1 : Ended(j) /\ Settled(att[j].outcome)
  /\ Cardinality({k \in Attempts : ~Settled(att[k].outcome)}) <= 1
  /\ \A k \in Attempts : ~Settled(att[k].outcome) => retryPc = "awaiting"

\* C12 witness: a second invocation is running after the first has failed.
C12_Witness ==
  /\ Len(att) = 2
  /\ att[1].outcome.st = "rejected"
  /\ att[2].pc = "racing"
  /\ ~Settled(att[2].outcome)

\* A session is in flight: its open succeeded, its handle is not disposed
\* and its loss signal has not fired.
InFlight(k) ==
  att[k].handle /\ att[k].disposed = 0 /\ ~Settled(att[k].connectionLost)

\* C13: there is never more than one in-flight ConnectionSession.
C13_OneSessionInFlight ==
  Cardinality({k \in Attempts : InFlight(k)}) <= 1

\* C14: a withSdk call that has run the race and ended has settled with
\* the outcome of whichever of the Work Function and the loss signal settled
\* first, has disposed at most once, and the one that settled later has not
\* become its outcome.
C14_FirstSettledWinsOnce ==
  \A k \in Attempts :
    (Ended(k) /\ att[k].runCalls = 1) =>
      /\ att[k].disposed <= 1
      /\ att[k].first = "work" => att[k].outcome.v = att[k].work.v
      /\ att[k].first = "lost" => att[k].outcome.v = att[k].connectionLost.v

\* The failures the retry loop has handled so far, of whatever kind.
Failures == Len(errLog)

\* C15: the state of the retry loop is a function of the number of failures
\* it has handled, whatever their kinds: it has given up exactly when
\* maxRetries = N is finite and N + 1 failures were handled, it has counted
\* each failure once, and while it has not given up every handled failure was
\* followed by a wait and (once the wait is over) another invocation.
C15_RetryIgnoresErrorKind ==
  LET N == CfgMaxRetries(cfg) IN
  /\ numRetries = Failures
  /\ retryResult.st = "rejected" <=> (N # Undef /\ Failures = N + 1)
  /\ retryResult.st = "rejected" => Len(att) = Failures
  /\ retryResult.st # "rejected" =>
       /\ Len(sleeps) = Failures
       /\ Len(att) = IF retryPc = "sleeping" \/ retryPc = "start"
                       THEN Failures ELSE Failures + 1
       /\ N # Undef => Failures <= N

\* C15 witness: the loop is waiting to retry after a failed open and has
\* retried after a Work Function error or a connection loss before.
C15_Witness ==
  /\ retryPc = "sleeping"
  /\ Len(errLog) = 2
  /\ errLog[1].kind \in {"workErr", "lostErr"}
  /\ errLog[2].kind = "connErr"

\* cfg.retryTimeoutMs, 0 when it is absent
ConfiguredDelay ==
  IF cfg.given /\ cfg.retryTimeoutMs # Undef THEN cfg.retryTimeoutMs ELSE 0

\* C16: every wait lasts retryTimeoutMs (0 when absent); there is exactly
\* one wait per failed invocation that is followed by another invocation, the
\* wait is made before that invocation starts, and no wait follows a success
\* or the failure on which withRetry gives up.
C16_OneWaitBetweenAttempts ==
  /\ \A i \in 1 .. Len(sleeps) : sleeps[i] = ConfiguredDelay
  /\ retryPc = "sleeping" => Len(sleeps) = Len(att) /\ AllFailed
  /\ retryPc \in {"awaiting", "done"} => Len(sleeps) = Len(att) - 1
  /\ retryPc = "start" => sleeps = <<>>

\* C16 witness: with retryTimeoutMs = 500 the second invocation was started
\* after one wait of 500 and has succeeded; no second wait was made.
C16_Witness ==
  /\ cfg.given /\ cfg.retryTimeoutMs = 500
  /\ sleeps = <<500>>
  /\ Len(att) = 2
  /\ retryResult.st = "fulfilled"

(***************************************************************************)
(* Properties of several calls of the returned function (SpecCalls).       *)
(***************************************************************************)
\* C17: every call of the function withRetry(cfg) returned counts its own
\* failures only, starting at 0, whatever the other calls have seen: its
\* counter equals the number of failed invocations of its own operation, and
\* with a finite maxRetries = N it gives up after exactly N + 1 invocations of
\* its own operation, never earlier.
C17_CounterPerCall ==
  \A i \in 1 .. NumCalls :
    LET c == calls[i]
        N == CfgMaxRetries(cfg)
    IN /\ c.pc = "start" => c.numRetries = 0 /\ c.invoked = 0
       /\ c.pc = "awaiting" => c.numRetries = c.invoked - 1
       /\ c.pc = "sleeping" => c.numRetries = c.invoked
       /\ c.result.st = "fulfilled" => c.numRetries = c.invoked - 1
       /\ c.result.st = "rejected" =>
            c.numRetries = c.invoked /\ N # Undef /\ c.invoked = N + 1
       /\ N # Undef => c.invoked <= N + 1

\* C17 witness: two calls have overlapped, and each has given up only after
\* MaxN + 1 invocations of its own operation.
C17_Witness ==
  /\ CfgMaxRetries(cfg) = MaxN
  /\ \A i \in 1 .. NumCalls :
       /\ calls[i].result.st = "rejected"
       /\ calls[i].invoked = MaxN + 1

(***************************************************************************)
(* Order of the comparison and the increment in the catch block (Spec).    *)
(***************************************************************************)
\* The retry loop handles a failure and gives up.
GivesUp == retryPc = "awaiting" /\ retryPc' = "done" /\ retryResult'.st = "rejected"

\* The retry loop handles a failure and goes on to wait.
GoesOn == retryPc = "awaiting" /\ retryPc' = "sleeping"

\* C18 as stated: on a failure withRetry gives up exactly when the counter
\* as it stands at the time of the failure exceeds maxRetries, and does not
\* increment it then; it increments it only on the branch that retries.
C18_CompareThenIncrement ==
  [][ LET N == CfgMaxRetries(cfg) IN
      /\ GivesUp => N # Undef /\ numRetries > N /\ numRetries' = numRetries
      /\ GoesOn => (N = Undef \/ numRetries <= N) /\ numRetries' = numRetries + 1
    ]_vars

\* C18 amended: on every failure withRetry first increments the counter
\* (which starts at 0), on the give-up branch too, and gives up exactly when
\* the incremented counter exceeds a finite maxRetries.
C18_IncrementThenCompare ==
  [][ LET N == CfgMaxRetries(cfg) IN
      /\ retryPc = "start" => numRetries = 0
      /\ GivesUp => N # Undef /\ numRetries' = numRetries + 1 /\ numRetries' > N
      /\ GoesOn => /\ numRetries' = numRetries + 1
                   /\ N = Undef \/ numRetries' <= N
      /\ (~GivesUp /\ ~GoesOn) => numRetries' = numRetries
    ]_vars

\* C18 witness: with maxRetries = MaxN the loop has given up with the counter
\* at MaxN + 1, one more than the retries it made.
C18_Witness ==
  /\ CfgMaxRetries(cfg) = MaxN
  /\ retryPc = "done"
  /\ retryResult.st = "rejected"
  /\ numRetries = MaxN + 1
  /\ Len(sleeps) = MaxN

(***************************************************************************)
(* Termination (LiveSpec).                                                 *)
(***************************************************************************)
\* C19: with a finite maxRetries = N, when every invocation of the operation
\* settles (in every attempt the open fails, the Work Function settles or the
\* loss signal fires), withRetry eventually returns or raises, and it never
\* makes more than N retries.
C19_FiniteRetriesTerminate ==
  /\ [](CfgMaxRetries(cfg) # Undef =>
          /\ Len(sleeps) <= CfgMaxRetries(cfg)
          /\ Len(att) <= CfgMaxRetries(cfg) + 1)
  /\ (CfgMaxRetries(cfg) # Undef) ~> (retryPc = "done" /\ Settled(retryResult))

\* C19 witness: with maxRetries = MaxN the loop has ended by raising after
\* MaxN retries, the last attempt having been ended by the loss signal while
\* its Work Function never settled.
C19_Witness ==
  /\ CfgMaxRetries(cfg) = MaxN
  /\ retryPc = "done"
  /\ retryResult.st = "rejected"
  /\ retryResult.v.kind = "lostErr"
  /\ ~Settled(att[Len(att)].work)
  /\ Len(sleeps) = MaxN

(***************************************************************************)
(* main.                                                                   *)
(***************************************************************************)
\* C20: main logs 'the program ended successfully with result' only once the
\* retry loop has returned a value, and the entry shows that value; when the
\* retry loop has given up, main has logged 'the program ended unsuccessfully'.
C20_MainLogsOutcome ==
  /\ \A i \in 1 .. Len(mainLog) :
       mainLog[i].msg = "the program ended successfully with result" =>
         /\ retryResult.st = "fulfilled"
         /\ mainLog[i].shown = retryResult.v
  /\ (retryPc = "done" /\ retryResult.st = "rejected") =>
       \E i \in 1 .. Len(mainLog) :
         mainLog[i].msg = "the program ended unsuccessfully"

====
